---- MODULE Spec2Model ----
(***************************************************************************)
(* A model of arxiv_api.client.ArxivClient: the feed parser parse_feed and *)
(* the two query operations search and get built on it.                    *)
(*                                                                         *)
(* Python values are tagged records: None, Str(s) and List(l).  A string   *)
(* is a sequence of symbols, so that strip, lower, split and "in" are      *)
(* computed the way Python computes them.  An XML element is a record      *)
(* [ns, tag, text, attrib, children] as ElementTree presents it.           *)
(***************************************************************************)
EXTENDS Integers, Sequences, FiniteSets, TLC

VARIABLES session, base_url, pc, call, params, sent, resp, atom_text,
          root, todo, entries, results, ret, exc

vars == <<session, base_url, pc, call, params, sent, resp, atom_text,
          root, todo, entries, results, ret, exc>>

(***************************************************************************)
(* Bounds of the model.                                                    *)
(***************************************************************************)
MaxChildren == 2
MaxEntries == 3
MaxIdPieces == 6

(***************************************************************************)
(* Python values.                                                          *)
(***************************************************************************)
None == [k |-> "None"]
Str(s) == [k |-> "str", v |-> s]
List(l) == [k |-> "list", v |-> l]
Exc(name) == [k |-> "exc", v |-> name]

\* Python truthiness of None and of a string: "x and ..." / "if x".
Truthy(x) == x # None /\ x.v # <<>>

(***************************************************************************)
(* String methods.                                                         *)
(***************************************************************************)
Whitespace == {" ", "\n", "\t"}

RECURSIVE lstrip(_)
lstrip(s) ==
    IF s # <<>> /\ Head(s) \in Whitespace THEN lstrip(Tail(s)) ELSE s

RECURSIVE rstrip(_)
rstrip(s) ==
    IF s # <<>> /\ s[Len(s)] \in Whitespace
    THEN rstrip(SubSeq(s, 1, Len(s) - 1))
    ELSE s

\* A variant of strip that trims the left side only (x.lstrip()).
stripLeftOnly(x) == IF x = None THEN Exc("AttributeError") ELSE Str(lstrip(x.v))

\* x.strip(): a method call on None raises AttributeError.
strip(x) == IF x = None THEN Exc("AttributeError") ELSE Str(rstrip(lstrip(x.v)))

lowerChar(c) ==
    CASE c = "P" -> "p"
      [] c = "D" -> "d"
      [] c = "F" -> "f"
      [] c = "O" -> "o"
      [] c = "C" -> "c"
      [] OTHER -> c

\* x.lower()
lower(x) ==
    IF x = None THEN Exc("AttributeError")
    ELSE Str([i \in 1..Len(x.v) |-> lowerChar(x.v[i])])

\* The marker of line 74/75, "/abs/".
AbsMarker == <<"/", "a", "b", "s", "/">>

StartsWith(s, p) == Len(s) >= Len(p) /\ SubSeq(s, 1, Len(p)) = p

\* sep in s
RECURSIVE Contains(_, _)
Contains(s, sep) ==
    IF Len(s) < Len(sep) THEN FALSE
    ELSE StartsWith(s, sep) \/ Contains(Tail(s), sep)

\* s.split(sep): str.split scans from the left and resumes the search
\* right after each separator it has found.
RECURSIVE splitFrom(_, _, _)
splitFrom(s, sep, piece) ==
    IF s = <<>> THEN <<piece>>
    ELSE IF StartsWith(s, sep)
         THEN <<piece>> \o splitFrom(SubSeq(s, Len(sep) + 1, Len(s)), sep, <<>>)
         ELSE splitFrom(Tail(s), sep, Append(piece, Head(s)))

split(s, sep) == splitFrom(s, sep, <<>>)

(***************************************************************************)
(* ElementTree: namespaces, find, findall, get.                            *)
(***************************************************************************)
\* The ns mapping of lines 63-66.
ns == [atom |-> "http://www.w3.org/2005/Atom",
       arxiv |-> "http://arxiv.org/schemas/atom"]

NoAttrib == [type |-> None, title |-> None, href |-> None, term |-> None]

Element(n, tag, text, attrib, children) ==
    [ns |-> n, tag |-> tag, text |-> text, attrib |-> attrib,
     children |-> children]

Matches(el, prefix, tag) == el.ns = ns[prefix] /\ el.tag = tag

\* A variant of findall that yields the first match only.
findallFirstOnly(el, prefix, tag) ==
    LET P == {j \in 1..Len(el.children) : Matches(el.children[j], prefix, tag)}
    IN  IF P = {} THEN <<>>
        ELSE <<el.children[CHOOSE j \in P : \A m \in P : j <= m]>>

\* el.findall("prefix:tag", ns): the direct children with that qualified
\* name, in document order.
findall(el, prefix, tag) ==
    SelectSeq(el.children, LAMBDA c : Matches(c, prefix, tag))

\* el.find("prefix:tag", ns): the first such child, or None.
find(el, prefix, tag) ==
    LET found == findall(el, prefix, tag)
    IN  IF found = <<>> THEN None ELSE found[1]

\* el.get(name)
get_attr(el, name) == el.attrib[name]

\* el.text if el is not None else None
textOrNone(el) == IF el # None THEN el.text ELSE None

(***************************************************************************)
(* parse_feed: the fields of one record, lines 70-111.                     *)
(***************************************************************************)
PdfType == <<"application/pdf">>
PdfTitle == <<"p", "d", "f">>

\* lines 71-72
raw_id(entry) == textOrNone(find(entry, "atom", "id"))

\* What follows the last position at which sep occurs in s, which holds sep.
RECURSIVE afterLastOccurrence(_, _)
afterLastOccurrence(s, sep) ==
    IF Contains(Tail(s), sep) THEN afterLastOccurrence(Tail(s), sep)
    ELSE SubSeq(s, Len(sep) + 1, Len(s))

\* A variant of arxiv_id that cuts at the last occurrence of the marker
\* (raw_id[raw_id.rfind("/abs/") + 5:]).
arxiv_idAfterRfind(entry) ==
    LET raw == raw_id(entry)
    IN  IF Truthy(raw) /\ Contains(raw.v, AbsMarker)
        THEN Str(afterLastOccurrence(raw.v, AbsMarker))
        ELSE None

\* lines 73-75
arxiv_id(entry) ==
    LET raw == raw_id(entry)
    IN  IF Truthy(raw) /\ Contains(raw.v, AbsMarker)
        THEN LET parts == split(raw.v, AbsMarker) IN Str(parts[Len(parts)])
        ELSE None

\* A variant of strippedText without the test of el.text.
strippedTextUnguarded(el) ==
    IF el # None THEN strip(el.text) ELSE Str(<<>>)

\* lines 78/80 and 79/81: el.text.strip() if el is not None and el.text else ""
strippedText(el) ==
    IF el # None /\ Truthy(el.text) THEN strip(el.text) ELSE Str(<<>>)

title(entry) == strippedText(find(entry, "atom", "title"))

summary(entry) == strippedText(find(entry, "atom", "summary"))

\* lines 84/86 and 85/87
published(entry) == textOrNone(find(entry, "atom", "published"))

updated(entry) == textOrNone(find(entry, "atom", "updated"))

\* A variant of authorNames that appends the name text as it is.
RECURSIVE authorNamesUnstripped(_)
authorNamesUnstripped(els) ==
    IF els = <<>> THEN <<>>
    ELSE LET name_el == find(Head(els), "atom", "name")
         IN  (IF name_el # None /\ Truthy(name_el.text)
              THEN <<name_el.text>>
              ELSE <<>>) \o authorNamesUnstripped(Tail(els))

\* lines 90-94: the loop over the author elements
RECURSIVE authorNames(_)
authorNames(els) ==
    IF els = <<>> THEN <<>>
    ELSE LET name_el == find(Head(els), "atom", "name")
         IN  (IF name_el # None /\ Truthy(name_el.text)
              THEN <<strip(name_el.text)>>
              ELSE <<>>) \o authorNames(Tail(els))

authors(entry) == List(authorNames(findall(entry, "atom", "author")))

\* line 102: the test that classifies a link as the PDF link
isPdfLink(link) ==
    LET ltype == get_attr(link, "type")
        ltitle == get_attr(link, "title")
    IN  ltype = Str(PdfType) \/ (Truthy(ltitle) /\ lower(ltitle) = Str(PdfTitle))

\* A variant of pdfScan without the break: the last match wins.
RECURSIVE pdfScanNoBreak(_)
pdfScanNoBreak(links) ==
    IF links = <<>> THEN None
    ELSE LET later == pdfScanNoBreak(Tail(links))
         IN  IF later = None /\ isPdfLink(Head(links))
             THEN get_attr(Head(links), "href")
             ELSE later

\* lines 97-104: the loop over the link elements, left at the first match
RECURSIVE pdfScan(_)
pdfScan(links) ==
    IF links = <<>> THEN None
    ELSE IF isPdfLink(Head(links)) THEN get_attr(Head(links), "href")
         ELSE pdfScan(Tail(links))

pdf_url(entry) == pdfScan(findall(entry, "atom", "link"))

\* A variant of hasTerm that tests "c.get('term') is not None".
hasTermAttribute(c) == get_attr(c, "term") # None

\* line 107: the filter of the list comprehension, "if c.get('term')"
hasTerm(c) == Truthy(get_attr(c, "term"))

\* line 107
categories(entry) ==
    LET kept == SelectSeq(findall(entry, "atom", "category"), hasTerm)
    IN  List([i \in 1..Len(kept) |-> get_attr(kept[i], "term")])

\* lines 108-111
primary_category(entry) ==
    LET pcat == find(entry, "arxiv", "primary_category")
    IN  IF pcat # None THEN get_attr(pcat, "term") ELSE None

\* lines 113-125: the dict appended for one entry
record(entry) ==
    [id |-> arxiv_id(entry),
     raw_id |-> raw_id(entry),
     title |-> title(entry),
     summary |-> summary(entry),
     published |-> published(entry),
     updated |-> updated(entry),
     authors |-> authors(entry),
     pdf_url |-> pdf_url(entry),
     categories |-> categories(entry),
     primary_category |-> primary_category(entry),
     _raw_entry |-> entry]

IsExc(x) == x.k = "exc"

\* The exception, if any, that building the record of an entry raises: a
\* method call on None while a field is computed.
raised(rec) ==
    IF IsExc(rec.title) THEN rec.title
    ELSE IF IsExc(rec.summary) THEN rec.summary
    ELSE IF \E i \in 1..Len(rec.authors.v) : IsExc(rec.authors.v[i])
         THEN Exc("AttributeError")
    ELSE None

(***************************************************************************)
(* The inputs: feed texts.  A text is either not parseable as XML or the   *)
(* element tree ET.fromstring builds from it.  An element without          *)
(* character data has text None, as in ElementTree.                        *)
(***************************************************************************)
RECURSIVE SeqsUpTo(_, _)
SeqsUpTo(S, n) ==
    IF n = 0 THEN {<<>>}
    ELSE LET shorter == SeqsUpTo(S, n - 1)
         IN  shorter \cup {Append(q, x) : q \in shorter, x \in S}

Atom(tag, text) == Element(ns.atom, tag, text, NoAttrib, <<>>)

Link(type, ltitle, href) ==
    Element(ns.atom, "link", None,
            [type |-> type, title |-> ltitle, href |-> href, term |-> None], <<>>)

Term(n, tag, term) ==
    Element(n, tag, None, [NoAttrib EXCEPT !.term = term], <<>>)

Author(children) == Element(ns.atom, "author", None, NoAttrib, children)

IdWithMarker == Atom("id", Str(<<"x", "/", "a", "b", "s", "/", "1">>))
IdWithoutMarker == Atom("id", Str(<<"x", "1">>))

Ids == {IdWithMarker, IdWithoutMarker}

Titles ==
    {Atom("title", Str(<<" ", "Q", " ", "F", "\n">>)),
     Atom("title", Str(<<" ", "\t">>)),
     Atom("title", None)}

Summaries == {Atom("summary", Str(<<"S", " ">>)), Atom("summary", None)}

Dates ==
    {Atom("published", Str(<<" ", "2021">>)), Atom("updated", Str(<<"2022", "\n">>))}

Authors ==
    {Author(<<>>),
     Author(<<Atom("name", None)>>),
     Author(<<Atom("name", Str(<<" ">>))>>),
     Author(<<Atom("name", Str(<<" ", "J", " ", "D", " ">>))>>),
     Author(<<Atom("email", Str(<<"e">>)), Atom("name", Str(<<"B">>))>>)}

Links ==
    {Link(Str(PdfType), None, Str(<<"h1">>)),
     Link(None, Str(<<"p", "d", "f">>), Str(<<"h2">>)),
     Link(Str(<<"text/html">>), Str(<<"P", "D", "F">>), Str(<<"h3">>)),
     Link(Str(<<"text/html">>), Str(<<"D", "O", "C">>), Str(<<"h4">>)),
     Link(Str(PdfType), None, None),
     Link(Str(<<"Application/PDF">>), Str(<<>>), Str(<<"h6">>))}

Categories ==
    {Term(ns.atom, "category", None),
     Term(ns.atom, "category", Str(<<>>)),
     Term(ns.atom, "category", Str(<<"cs.CL">>)),
     Term(ns.atom, "category", Str(<<"math">>))}

PrimaryCategories ==
    {Term(ns.arxiv, "primary_category", Str(<<"cs.CL">>)),
     Term(ns.arxiv, "primary_category", None),
     Term(ns.atom, "primary_category", Str(<<"math">>))}

\* The sub-elements an entry is assembled from.
SubElements ==
    Ids \cup Titles \cup Summaries \cup Dates \cup Authors \cup Links
        \cup Categories \cup PrimaryCategories

Entry(children) == Element(ns.atom, "entry", None, NoAttrib, children)

Feed(children) == Element(ns.atom, "feed", None, NoAttrib, children)

Xml(el) == [xml |-> TRUE, root |-> el]

NotXml(src) == [xml |-> FALSE, src |-> src]

\* Identifier texts: the pieces "/", "abs" and "x" put together, which
\* gives markers that are absent, repeated, adjacent and overlapping.
IdPieces == {<<"/">>, <<"a", "b", "s">>, <<"x">>}

RECURSIVE IdTexts(_)
IdTexts(n) ==
    IF n = 0 THEN {<<>>}
    ELSE LET shorter == IdTexts(n - 1)
         IN  shorter \cup {t \o p : t \in shorter, p \in IdPieces}

IdValues == {None} \cup {Str(t) : t \in IdTexts(MaxIdPieces) \ {<<>>}}

\* Feeds of one entry: any sub-elements, or one identifier of any text.
EntryFeeds ==
    {Xml(Feed(<<Entry(c)>>)) : c \in SeqsUpTo(SubElements, MaxChildren)}
        \cup {Xml(Feed(<<Entry(<<Atom("id", t)>>)>>)) : t \in IdValues}

\* Feeds of several top-level elements, entries and others, repeats included.
TopLevel ==
    {Entry(<<IdWithMarker>>),
     Entry(<<IdWithoutMarker>>),
     Atom("title", Str(<<"F">>)),
     Element(ns.arxiv, "entry", None, NoAttrib, <<IdWithMarker>>)}

ListFeeds == {Xml(Feed(c)) : c \in SeqsUpTo(TopLevel, MaxEntries)}

Unparseable == {NotXml("not xml"), NotXml("<feed><entry></feed>")}

\* What a caller hands to parse_feed, and what the endpoint answers.
FeedTexts == Unparseable \cup EntryFeeds \cup ListFeeds

ResponseBodies == Unparseable \cup ListFeeds

(***************************************************************************)
(* The client: __init__, search, get, parse_feed.                          *)
(***************************************************************************)
\* line 22
BASE_URL == Str(<<"http://export.arxiv.org/api/query">>)

\* The timeout of line 48.
Timeout == 15

\* The defaults of the signature of search, line 28.
DefaultStart == 0
DefaultMaxResults == 10
DefaultSortBy == Str(<<"relevance">>)
DefaultSortOrder == Str(<<"descending">>)

\* A value not yet assigned or returned.
Unset == [k |-> "unset"]

Session == [k |-> "Session"]

Response(status, text) == [k |-> "Response", status_code |-> status, text |-> text]

\* lines 41-47
searchParams(query, start, max_results, sort_by, sort_order) ==
    [search_query |-> query, start |-> start, max_results |-> max_results,
     sortBy |-> sort_by, sortOrder |-> sort_order]

\* line 54: the arguments get passes to search
getParams(arxiv_id_arg) ==
    searchParams(Str(<<"id:">> \o arxiv_id_arg.v), DefaultStart, 1,
                 DefaultSortBy, DefaultSortOrder)

\* A variant of getResult that takes the last record (results[-1]).
getResultLast(res) == IF res.v # <<>> THEN res.v[Len(res.v)] ELSE None

\* line 55: results[0] if results else None
getResult(res) == IF res.v # <<>> THEN res.v[1] ELSE None

\* line 49: resp.raise_for_status() raises on a 4xx or 5xx status
raisesForStatus(r) == r.status_code >= 400 /\ r.status_code < 600

SessionArgs == {None, Session}
BaseUrlArgs == {None, Str(<<"http://mirror.example/api">>)}
Queries == {Str(<<"all:electron">>), Str(<<"cat:cs.CL">>)}
Starts == {DefaultStart, 10}
MaxResultsArgs == {DefaultMaxResults, 1}
SortBys == {DefaultSortBy, Str(<<"lastUpdatedDate">>)}
SortOrders == {DefaultSortOrder, Str(<<"ascending">>)}
ArxivIds == {Str(<<"2101.00001">>), Str(<<"hep-th/9901001">>)}
Statuses == {200, 404, 503}
TransportErrors == {Exc("ConnectionError"), Exc("Timeout")}

\* lines 24-26: the client after construction, no call in progress
Init ==
    /\ session \in SessionArgs
    /\ \E b \in BaseUrlArgs : base_url = IF Truthy(b) THEN b ELSE BASE_URL
    /\ pc = "idle"
    /\ call = "none"
    /\ params = Unset
    /\ sent = <<>>
    /\ resp = Unset
    /\ atom_text = Unset
    /\ root = Unset
    /\ todo = <<>>
    /\ entries = <<>>
    /\ results = Unset
    /\ ret = Unset
    /\ exc = None

\* An exception leaves every frame up to the caller: no frame handles it.
Raise(e) ==
    /\ exc' = e
    /\ pc' = "done"

\* A caller calls parse_feed(atom_text), line 57.
CallParseFeed ==
    /\ pc = "idle"
    /\ \E text \in FeedTexts : atom_text' = text
    /\ call' = "parse_feed"
    /\ pc' = "fromstring"
    /\ UNCHANGED <<session, base_url, params, sent, resp, root, todo, entries,
                   results, ret, exc>>

\* A caller calls search(...), lines 28-47.
CallSearch ==
    /\ pc = "idle"
    /\ \E q \in Queries, st \in Starts, mr \in MaxResultsArgs,
          sb \in SortBys, so \in SortOrders :
          params' = searchParams(q, st, mr, sb, so)
    /\ call' = "search"
    /\ pc' = "http_get"
    /\ UNCHANGED <<session, base_url, sent, resp, atom_text, root, todo,
                   entries, results, ret, exc>>

\* A caller calls get(arxiv_id), which calls search: lines 52-54, 28-47.
CallGet ==
    /\ pc = "idle"
    /\ \E a \in ArxivIds : params' = getParams(a)
    /\ call' = "get"
    /\ pc' = "http_get"
    /\ UNCHANGED <<session, base_url, sent, resp, atom_text, root, todo,
                   entries, results, ret, exc>>

\* line 48 on a client without a session: None has no attribute "get".
HttpGetNoSession ==
    /\ pc = "http_get"
    /\ session = None
    /\ Raise(Exc("AttributeError"))
    /\ UNCHANGED <<session, base_url, call, params, sent, resp, atom_text,
                   root, todo, entries, results, ret>>

\* line 48: the session is asked for the page; it answers or it raises.
HttpGet ==
    /\ pc = "http_get"
    /\ session # None
    /\ sent' = Append(sent, [url |-> base_url, params |-> params,
                             timeout |-> Timeout])
    /\ \/ /\ \E e \in TransportErrors : Raise(e)
          /\ UNCHANGED resp
       \/ /\ \E st \in Statuses, body \in ResponseBodies :
                resp' = Response(st, body)
          /\ pc' = "raise_for_status"
          /\ UNCHANGED exc
    /\ UNCHANGED <<session, base_url, call, params, atom_text, root, todo,
                   entries, results, ret>>

\* lines 49-50: the status check, then the call of parse_feed on the body.
RaiseForStatus ==
    /\ pc = "raise_for_status"
    /\ \/ /\ raisesForStatus(resp)
          /\ Raise(Exc("HTTPError"))
          /\ UNCHANGED atom_text
       \/ /\ ~raisesForStatus(resp)
          /\ atom_text' = resp.text
          /\ pc' = "fromstring"
          /\ UNCHANGED exc
    /\ UNCHANGED <<session, base_url, call, params, sent, resp, root, todo,
                   entries, results, ret>>

\* lines 67-69: ET.fromstring raises ParseError on text that is not XML;
\* otherwise the loop starts over the entry children of the root.
FromString ==
    /\ pc = "fromstring"
    /\ \/ /\ ~atom_text.xml
          /\ Raise(Exc("ParseError"))
          /\ UNCHANGED <<root, todo, entries>>
       \/ /\ atom_text.xml
          /\ root' = atom_text.root
          /\ todo' = findall(atom_text.root, "atom", "entry")
          /\ entries' = <<>>
          /\ pc' = "loop"
          /\ UNCHANGED exc
    /\ UNCHANGED <<session, base_url, call, params, sent, resp, atom_text,
                   results, ret>>

\* lines 69-125: one iteration of the loop, which appends one record.
LoopEntry ==
    /\ pc = "loop"
    /\ todo # <<>>
    /\ LET rec == record(Head(todo))
       IN  \/ /\ raised(rec) # None
              /\ Raise(raised(rec))
              /\ UNCHANGED <<todo, entries>>
           \/ /\ raised(rec) = None
              /\ entries' = Append(entries, rec)
              /\ todo' = Tail(todo)
              /\ UNCHANGED <<pc, exc>>
    /\ UNCHANGED <<session, base_url, call, params, sent, resp, atom_text,
                   root, results, ret>>

\* line 127, and line 50 when search made the call: the list is returned to
\* the caller, or to get as its results (line 54).
ParseReturn ==
    /\ pc = "loop"
    /\ todo = <<>>
    /\ \/ /\ call = "get"
          /\ results' = List(entries)
          /\ pc' = "get_return"
          /\ UNCHANGED ret
       \/ /\ call # "get"
          /\ ret' = List(entries)
          /\ pc' = "done"
          /\ UNCHANGED results
    /\ UNCHANGED <<session, base_url, call, params, sent, resp, atom_text,
                   root, todo, entries, exc>>

\* line 55
GetReturn ==
    /\ pc = "get_return"
    /\ ret' = getResult(results)
    /\ pc' = "done"
    /\ UNCHANGED <<session, base_url, call, params, sent, resp, atom_text,
                   root, todo, entries, results, exc>>

\* The caller has its result or its exception; the locals of the call are
\* gone and the client, which no call changes, is ready for the next one.
Finish ==
    /\ pc = "done"
    /\ pc' = "idle"
    /\ call' = "none"
    /\ params' = Unset
    /\ sent' = <<>>
    /\ resp' = Unset
    /\ atom_text' = Unset
    /\ root' = Unset
    /\ todo' = <<>>
    /\ entries' = <<>>
    /\ results' = Unset
    /\ ret' = Unset
    /\ exc' = None
    /\ UNCHANGED <<session, base_url>>

Next ==
    \/ CallParseFeed
    \/ CallSearch
    \/ CallGet
    \/ HttpGetNoSession
    \/ HttpGet
    \/ RaiseForStatus
    \/ FromString
    \/ LoopEntry
    \/ ParseReturn
    \/ GetReturn
    \/ Finish

Spec == Init /\ [][Next]_vars

TypeOK ==
    /\ pc \in {"idle", "http_get", "raise_for_status", "fromstring", "loop",
               "get_return", "done"}
    /\ call \in {"none", "parse_feed", "search", "get"}
    /\ Len(sent) <= 1

(***************************************************************************)
(* What the specification says of a feed, stated by position in the        *)
(* document and independently of the operators above.                      *)
(***************************************************************************)
AtomUri == "http://www.w3.org/2005/Atom"
ArxivUri == "http://arxiv.org/schemas/atom"

\* The positions of the children of el with the given qualified name.
Positions(el, uri, tag) ==
    {j \in 1..Len(el.children) :
        el.children[j].ns = uri /\ el.children[j].tag = tag}

Least(P) == CHOOSE j \in P : \A m \in P : j <= m

\* The i-th smallest member of P.
Nth(P, i) == CHOOSE j \in P : Cardinality({m \in P : m < j}) = i - 1

\* The text of the first child of that name; None without child or text.
FirstText(el, uri, tag) ==
    LET P == Positions(el, uri, tag)
    IN  IF P = {} THEN None ELSE el.children[Least(P)].text

\* s without its leading and trailing whitespace.
Trimmed(s) ==
    LET Ink == {j \in 1..Len(s) : s[j] \notin {" ", "\t", "\n"}}
    IN  IF Ink = {} THEN <<>>
        ELSE SubSeq(s, Least(Ink), CHOOSE j \in Ink : \A m \in Ink : m <= j)

\* parse_feed has returned, to its caller or through search.
Parsed == pc = "done" /\ exc = None /\ call \in {"parse_feed", "search"}

\* The records returned and the entry elements of the document parsed.
Records == IF Parsed /\ ret.k = "list" THEN ret.v ELSE <<>>

EntryAt(i) ==
    LET feed == atom_text.root
    IN  feed.children[Nth(Positions(feed, AtomUri, "entry"), i)]

(***************************************************************************)
(* C1: on a well-formed document whose root has N entry children,          *)
(* parse_feed returns exactly N records and the i-th record is built from  *)
(* the i-th entry in document order.                                       *)
(***************************************************************************)
C1_RecordsFollowEntries ==
    (pc = "done" /\ call = "parse_feed" /\ atom_text.xml) =>
        /\ ret.k = "list"
        /\ Len(ret.v) = Cardinality(Positions(atom_text.root, AtomUri, "entry"))
        /\ \A i \in 1..Len(ret.v) :
              /\ ret.v[i]._raw_entry = EntryAt(i)
              /\ ret.v[i].raw_id = FirstText(EntryAt(i), AtomUri, "id")

\* Two entries, the second one first in the document, among other elements.
C1_Witness ==
    /\ pc = "done" /\ call = "parse_feed" /\ atom_text.xml
    /\ Len(atom_text.root.children) > 2
    /\ ret.k = "list" /\ Len(ret.v) = 2
    /\ ret.v[1].id = None /\ ret.v[2].id # None

(***************************************************************************)
(* C2: parse_feed fails exactly when its text is not parseable as XML; it  *)
(* then raises ParseError and no record, not even a partial list, comes    *)
(* out; on every well-formed document it returns a list.                   *)
(***************************************************************************)
C2_FailsOnlyOnUnparseable ==
    /\ (pc = "done" /\ call = "parse_feed") =>
          /\ (exc # None) <=> ~atom_text.xml
          /\ ~atom_text.xml => exc = Exc("ParseError") /\ ret = Unset
          /\ atom_text.xml => ret.k = "list"
    /\ (atom_text # Unset /\ ~atom_text.xml) => entries = <<>> /\ ret = Unset

C2_Witness ==
    /\ pc = "done" /\ call = "parse_feed"
    /\ ~atom_text.xml
    /\ exc = Exc("ParseError")

(***************************************************************************)
(* C3: in every record title and summary are strings, the empty string     *)
(* when the element or its text is missing and the trimmed text otherwise, *)
(* and authors and categories are lists.                                   *)
(***************************************************************************)
TrimmedOrEmpty(text) == IF text = None THEN Str(<<>>) ELSE Str(Trimmed(text.v))

C3_TitleSummaryNeverAbsent ==
    \A i \in 1..Len(Records) :
        /\ Records[i].title.k = "str"
        /\ Records[i].summary.k = "str"
        /\ Records[i].title = TrimmedOrEmpty(FirstText(EntryAt(i), AtomUri, "title"))
        /\ Records[i].summary = TrimmedOrEmpty(FirstText(EntryAt(i), AtomUri, "summary"))
        /\ Records[i].authors.k = "list"
        /\ Records[i].categories.k = "list"

\* A title trimmed on both sides beside a summary element without text.
C3_Witness ==
    /\ Len(Records) = 1
    /\ FirstText(EntryAt(1), AtomUri, "title") = Str(<<" ", "Q", " ", "F", "\n">>)
    /\ Records[1].title = Str(<<"Q", " ", "F">>)
    /\ Positions(EntryAt(1), AtomUri, "summary") # {}
    /\ Records[1].summary = Str(<<>>)

(***************************************************************************)
(* C4 as claimed: raw_id is the text of the identifier element and, when   *)
(* it contains "/abs/", id is what follows the LAST occurrence of "/abs/"  *)
(* in it; id is absent when the element, its text or the marker is         *)
(* missing.                                                                *)
(***************************************************************************)
Marker == <<"/", "a", "b", "s", "/">>

\* The positions at which the marker occurs in s.
Occurrences(s) ==
    {q \in 1..(Len(s) - Len(Marker) + 1) :
        SubSeq(s, q, q + Len(Marker) - 1) = Marker}

Greatest(P) == CHOOSE j \in P : \A m \in P : m <= j

After(s, q) == SubSeq(s, q + Len(Marker), Len(s))

RawIdIsIdText(i) == Records[i].raw_id = FirstText(EntryAt(i), AtomUri, "id")

C4_IdAfterLastOccurrence ==
    \A i \in 1..Len(Records) :
        LET raw == FirstText(EntryAt(i), AtomUri, "id")
        IN  /\ RawIdIsIdText(i)
            /\ Records[i].id =
                  IF raw # None /\ Occurrences(raw.v) # {}
                  THEN Str(After(raw.v, Greatest(Occurrences(raw.v))))
                  ELSE None

(***************************************************************************)
(* C4 as amended: id is the last piece of raw_id split at "/abs/", that is *)
(* what follows the last of the occurrences that a scan from the left      *)
(* finds when it resumes after each marker found; an occurrence that       *)
(* begins on the closing slash of a found one is not found.  Where no two  *)
(* occurrences overlap this is what follows the last occurrence.           *)
(***************************************************************************)
\* The occurrences found from the left: an occurrence is found unless it
\* begins inside a found one.
Found(s) ==
    CHOOSE G \in SUBSET Occurrences(s) :
        \A q \in Occurrences(s) :
            q \in G <=> ~\E f \in G : f < q /\ q < f + Len(Marker)

Overlapping(s) ==
    \E q \in Occurrences(s), r \in Occurrences(s) : q < r /\ r < q + Len(Marker)

C4_IdAfterLastFound ==
    \A i \in 1..Len(Records) :
        LET raw == FirstText(EntryAt(i), AtomUri, "id")
        IN  /\ RawIdIsIdText(i)
            /\ Records[i].id =
                  IF raw # None /\ Occurrences(raw.v) # {}
                  THEN Str(After(raw.v, Greatest(Found(raw.v))))
                  ELSE None
            /\ (raw # None /\ Occurrences(raw.v) # {} /\ ~Overlapping(raw.v)) =>
                  Records[i].id = Str(After(raw.v, Greatest(Occurrences(raw.v))))

\* "/abs/abs/x": the second marker begins on the slash that closes the first.
C4_Witness ==
    /\ Len(Records) = 1
    /\ Records[1].raw_id = Str(<<"/", "a", "b", "s", "/", "a", "b", "s", "/", "x">>)
    /\ Records[1].id = Str(<<"a", "b", "s", "/", "x">>)

(***************************************************************************)
(* C5: pdf_url is the href of the first link, in document order, whose     *)
(* type is "application/pdf" or whose title is "pdf" in any case; an       *)
(* earlier link that matches by title wins over a later one that matches   *)
(* by type; pdf_url is absent when no link matches.                        *)
(***************************************************************************)
TitleIsPdf(t) ==
    /\ t # None
    /\ Len(t.v) = 3
    /\ t.v[1] \in {"p", "P"} /\ t.v[2] \in {"d", "D"} /\ t.v[3] \in {"f", "F"}

PdfLinks(entry) ==
    {j \in Positions(entry, AtomUri, "link") :
        \/ entry.children[j].attrib.type = Str(<<"application/pdf">>)
        \/ TitleIsPdf(entry.children[j].attrib.title)}

C5_FirstMatchingLink ==
    \A i \in 1..Len(Records) :
        Records[i].pdf_url =
            IF PdfLinks(EntryAt(i)) = {} THEN None
            ELSE EntryAt(i).children[Least(PdfLinks(EntryAt(i)))].attrib.href

\* First a link that matches by title only, then one that matches by type.
C5_Witness ==
    /\ Len(Records) = 1
    /\ Len(EntryAt(1).children) = 2
    /\ EntryAt(1).children[1].attrib.title = Str(<<"P", "D", "F">>)
    /\ EntryAt(1).children[1].attrib.type # Str(<<"application/pdf">>)
    /\ EntryAt(1).children[2].attrib.type = Str(<<"application/pdf">>)
    /\ EntryAt(1).children[2].attrib.href = Str(<<"h1">>)
    /\ Records[1].pdf_url = Str(<<"h3">>)

(***************************************************************************)
(* C6: authors is, in document order, the trimmed text of the name child   *)
(* of exactly those author elements whose name child exists and has text;  *)
(* the others are skipped, so its length is the number of such elements.   *)
(***************************************************************************)
Named(entry) ==
    {j \in Positions(entry, AtomUri, "author") :
        FirstText(entry.children[j], AtomUri, "name") # None}

C6_AuthorsAreNamedAuthors ==
    \A i \in 1..Len(Records) :
        LET entry == EntryAt(i)
            names == Records[i].authors.v
        IN  /\ Len(names) = Cardinality(Named(entry))
            /\ \A n \in 1..Len(names) :
                  names[n] = Str(Trimmed(
                      FirstText(entry.children[Nth(Named(entry), n)],
                                AtomUri, "name").v))

\* An author without name text before one whose name is trimmed.
C6_Witness ==
    /\ Len(Records) = 1
    /\ Cardinality(Positions(EntryAt(1), AtomUri, "author")) = 2
    /\ Named(EntryAt(1)) = {2}
    /\ Records[1].authors = List(<<Str(<<"J", " ", "D">>)>>)

(***************************************************************************)
(* C10 as claimed: categories is, in document order, the term of every     *)
(* category element that has a term attribute, an empty one included, and  *)
(* primary_category is the term of the arxiv primary_category element,     *)
(* absent without that element.                                            *)
(***************************************************************************)
PrimaryIsItsTerm(i) ==
    LET P == Positions(EntryAt(i), ArxivUri, "primary_category")
    IN  Records[i].primary_category =
            IF P = {} THEN None ELSE EntryAt(i).children[Least(P)].attrib.term

WithTerm(entry) ==
    {j \in Positions(entry, AtomUri, "category") :
        entry.children[j].attrib.term # None}

C10_EveryTermAttribute ==
    \A i \in 1..Len(Records) :
        LET entry == EntryAt(i)
            terms == Records[i].categories.v
        IN  /\ Len(terms) = Cardinality(WithTerm(entry))
            /\ \A n \in 1..Len(terms) :
                  terms[n] = entry.children[Nth(WithTerm(entry), n)].attrib.term
            /\ PrimaryIsItsTerm(i)

(***************************************************************************)
(* C10 as amended: categories is, in document order, the term of every     *)
(* category element whose term attribute is present and not empty; a       *)
(* category element without term attribute or with an empty one is         *)
(* skipped.  primary_category is as claimed.                               *)
(***************************************************************************)
WithNonEmptyTerm(entry) ==
    {j \in WithTerm(entry) : entry.children[j].attrib.term.v # <<>>}

C10_EveryNonEmptyTerm ==
    \A i \in 1..Len(Records) :
        LET entry == EntryAt(i)
            terms == Records[i].categories.v
        IN  /\ Len(terms) = Cardinality(WithNonEmptyTerm(entry))
            /\ \A n \in 1..Len(terms) :
                  terms[n] = entry.children[Nth(WithNonEmptyTerm(entry), n)].attrib.term
            /\ PrimaryIsItsTerm(i)

\* A category with an empty term before one with a term.
C10_Witness ==
    /\ Len(Records) = 1
    /\ Len(EntryAt(1).children) = 2
    /\ WithTerm(EntryAt(1)) = {1, 2}
    /\ WithNonEmptyTerm(EntryAt(1)) = {2}
    /\ Records[1].categories = List(<<Str(<<"cs.CL">>)>>)

(***************************************************************************)
(* C7: get(id) is search("id:" + id, max_results=1) with the other         *)
(* parameters at their defaults; it returns the first record of what the   *)
(* search returns, even when the feed holds several entries, None when     *)
(* the search returns no record, and a failure of the search reaches the   *)
(* caller instead of None.                                                 *)
(***************************************************************************)
\* The search of the call in progress fails.
SearchFails ==
    \/ session = None
    \/ resp = Unset
    \/ resp.status_code >= 400
    \/ ~resp.text.xml

C7_GetIsFirstOfSearch ==
    (pc = "done" /\ call = "get") =>
        /\ \E a \in ArxivIds :
              params = [search_query |-> Str(<<"id:">> \o a.v), start |-> 0,
                        max_results |-> 1, sortBy |-> Str(<<"relevance">>),
                        sortOrder |-> Str(<<"descending">>)]
        /\ \A n \in 1..Len(sent) : sent[n].params = params
        /\ Len(sent) <= 1
        /\ (exc # None) <=> SearchFails
        /\ exc # None => ret = Unset
        /\ exc = None =>
              LET feed == resp.text.root
                  E == Positions(feed, AtomUri, "entry")
              IN  /\ Len(results.v) = Cardinality(E)
                  /\ E = {} => ret = None
                  /\ E # {} =>
                        /\ ret = results.v[1]
                        /\ ret._raw_entry = feed.children[Least(E)]
                        /\ ret.raw_id =
                              FirstText(feed.children[Least(E)], AtomUri, "id")

\* The endpoint answers with two different entries; get returns the first.
C7_Witness ==
    /\ pc = "done" /\ call = "get" /\ exc = None
    /\ Len(results.v) = 2
    /\ results.v[1] # results.v[2]
    /\ ret = results.v[1]

(***************************************************************************)
(* C8: every search call issues exactly one GET and goes GET, status       *)
(* check, parse: a GET that raises, or a response with an error status,    *)
(* reaches the caller unchanged, is not retried, the parser is not called  *)
(* on it and no records are returned; the parser runs only on the body of  *)
(* a successful response and its failure reaches the caller unchanged.     *)
(***************************************************************************)
SearchOrder ==
    /\ Len(sent) <= 1
    /\ (call \in {"search", "get"} /\ atom_text # Unset) =>
          /\ resp # Unset
          /\ resp.status_code < 400
          /\ atom_text = resp.text
    /\ (pc = "done" /\ call \in {"search", "get"}) =>
          /\ Len(sent) = 1
          /\ sent[1] = [url |-> base_url, params |-> params, timeout |-> 15]
          /\ resp = Unset =>
                exc \in {Exc("ConnectionError"), Exc("Timeout")} /\ ret = Unset
          /\ (resp # Unset /\ resp.status_code >= 400) =>
                exc = Exc("HTTPError") /\ atom_text = Unset /\ ret = Unset
          /\ (atom_text # Unset /\ ~atom_text.xml) =>
                exc = Exc("ParseError") /\ ret = Unset
          /\ (atom_text # Unset /\ atom_text.xml) => exc = None

C8_OneGetThenStatusThenParse == SearchOrder

\* The same, of the clients that were given a session.
SearchOrderWithSession == session # None => SearchOrder

(***************************************************************************)
(* C9: on a client constructed without a session, search and get still     *)
(* issue the GET, and fail only with a transport error or a parse error.   *)
(***************************************************************************)
C9_NoSessionStillRequests ==
    (session = None /\ pc = "done" /\ call \in {"search", "get"}) =>
        /\ Len(sent) = 1
        /\ exc \in {None, Exc("ConnectionError"), Exc("Timeout"),
                    Exc("HTTPError"), Exc("ParseError")}

====
